---- MODULE Spec2Model ----
(***************************************************************************)
(* Model of src/node-boilerplate/common.cc of node-scrypt: the parameter   *)
(* object check (CheckScryptParameters), the two MakeErrorObject overloads *)
(* with the ScryptErrorDescr table, and ProduceBuffer with the buffer it   *)
(* wraps around a native region (CreateBuffer, FreeCallback).              *)
(***************************************************************************)
EXTENDS Integers, Sequences, FiniteSets, TLC

VARIABLES
    NDEBUG,         \* the build: TRUE when assert() is compiled out
    call,           \* the last call made: its name and its inputs
    ret,            \* what the last call returned
    errorMessage,   \* the caller's std::string, passed by reference
    argument,       \* the caller's Handle<Value>, passed by reference
    heap            \* the native regions obtained with new char[]

vars == <<NDEBUG, call, ret, errorMessage, argument, heap>>

(***************************************************************************)
(* Bounds of the model.                                                    *)
(***************************************************************************)
MaxNativeCode == 14     \* native status codes range over -1..MaxNativeCode
MaxCategory == 6        \* error categories range over -1..MaxCategory
MaxChars == 1           \* characters of a string argument
MaxBufLen == 1          \* bytes of a buffer the caller already has
MaxHostBuffers == 2     \* buffers the caller already has
MaxMessageLen == 40     \* a caller does not translate a message longer than this again
MaxRegions == 2         \* native regions allocated in one run

(***************************************************************************)
(* Error categories, common.h (not part of the sources at hand): distinct  *)
(* non-zero enumerators, zero being the "no error" value.                  *)
(***************************************************************************)
ADDONARG == 1
JSARG == 2
PARMOBJ == 3
CONFIG == 4
SCRYPT == 5

Categories == (0 - 1)..MaxCategory
NativeCodes == (0 - 1)..MaxNativeCode

(***************************************************************************)
(* ScryptErrorDescr: the description of a native status code.              *)
(***************************************************************************)
ScryptErrorDescrShifted(error) ==
    CASE error = 0 -> "success"
      [] error = 1 -> "clock_getres or clock_gettime failed"
      [] error = 2 -> "getrlimit or sysctl(hw.usermem) failed"
      [] error = 3 -> "error computing derived key"
      [] error = 4 -> "could not read salt from /dev/urandom"
      [] error = 5 -> "error in OpenSSL"
      [] error = 6 -> "malloc failed"
      [] error = 7 -> "data is not a valid scrypt-encrypted block"
      [] error = 8 -> "unrecognized scrypt format"
      [] error = 9 -> "decrypting file would take too much memory"
      [] error = 10 -> "decrypting file would take too long"
      [] error = 11 -> "password is incorrect"
      [] error = 12 -> "error reading input file"
      [] error = 13 -> "error writing output file"
      [] OTHER -> "error unkown"

ScryptErrorDescr(error) ==
    CASE error = 0 -> "success"
      [] error = 1 -> "getrlimit or sysctl(hw.usermem) failed"
      [] error = 2 -> "clock_getres or clock_gettime failed"
      [] error = 3 -> "error computing derived key"
      [] error = 4 -> "could not read salt from /dev/urandom"
      [] error = 5 -> "error in OpenSSL"
      [] error = 6 -> "malloc failed"
      [] error = 7 -> "data is not a valid scrypt-encrypted block"
      [] error = 8 -> "unrecognized scrypt format"
      [] error = 9 -> "decrypting file would take too much memory"
      [] error = 10 -> "decrypting file would take too long"
      [] error = 11 -> "password is incorrect"
      [] error = 12 -> "error writing output file"
      [] error = 13 -> "error reading input file"
      [] OTHER -> "error unkown"

(***************************************************************************)
(* Parameter objects.  A field is absent, or present with a value of some  *)
(* JavaScript type; Has() sees presence, IsNumber() sees the type.         *)
(***************************************************************************)
Fields == {"N", "r", "p"}
Numbers == {0, 3}
FieldValues ==
    {[has |-> FALSE, type |-> "none", num |-> 0]}
    \cup {[has |-> TRUE, type |-> "number", num |-> n] : n \in Numbers}
    \cup {[has |-> TRUE, type |-> "string", num |-> 0]}
ParameterObjects == [Fields -> FieldValues]

Has(obj, f) == obj[f].has
IsNumber(val) == val.type = "number"

(***************************************************************************)
(* CheckScryptParameters(obj, errMessage): the return value and the        *)
(* message left in the caller's string.                                    *)
(***************************************************************************)
CheckTypeBeforePresence(obj, errMessage) ==
    IF ~Has(obj, "N") THEN [ret |-> PARMOBJ, errMessage |-> "N value is not present"]
    ELSE IF ~IsNumber(obj["N"]) THEN [ret |-> PARMOBJ, errMessage |-> "N must be a numeric value"]
    ELSE IF ~Has(obj, "r") THEN [ret |-> PARMOBJ, errMessage |-> "r value is not present"]
    ELSE IF ~IsNumber(obj["r"]) THEN [ret |-> PARMOBJ, errMessage |-> "r must be a numeric value"]
    ELSE IF ~Has(obj, "p") THEN [ret |-> PARMOBJ, errMessage |-> "p value is not present"]
    ELSE IF ~IsNumber(obj["p"]) THEN [ret |-> PARMOBJ, errMessage |-> "p must be a numeric value"]
    ELSE [ret |-> 0, errMessage |-> errMessage]

CheckPresenceOnlyOfN(obj, errMessage) ==
    IF ~Has(obj, "N") THEN [ret |-> PARMOBJ, errMessage |-> "N value is not present"]
    ELSE IF ~Has(obj, "r") THEN [ret |-> PARMOBJ, errMessage |-> "N value is not present"]
    ELSE IF ~Has(obj, "p") THEN [ret |-> PARMOBJ, errMessage |-> "p value is not present"]
    ELSE IF ~IsNumber(obj["N"]) THEN [ret |-> PARMOBJ, errMessage |-> "N must be a numeric value"]
    ELSE IF ~IsNumber(obj["r"]) THEN [ret |-> PARMOBJ, errMessage |-> "r must be a numeric value"]
    ELSE IF ~IsNumber(obj["p"]) THEN [ret |-> PARMOBJ, errMessage |-> "p must be a numeric value"]
    ELSE [ret |-> 0, errMessage |-> errMessage]

CheckScryptParameters(obj, errMessage) ==
    IF ~Has(obj, "N") THEN [ret |-> PARMOBJ, errMessage |-> "N value is not present"]
    ELSE IF ~Has(obj, "r") THEN [ret |-> PARMOBJ, errMessage |-> "r value is not present"]
    ELSE IF ~Has(obj, "p") THEN [ret |-> PARMOBJ, errMessage |-> "p value is not present"]
    ELSE IF ~IsNumber(obj["N"]) THEN [ret |-> PARMOBJ, errMessage |-> "N must be a numeric value"]
    ELSE IF ~IsNumber(obj["r"]) THEN [ret |-> PARMOBJ, errMessage |-> "r must be a numeric value"]
    ELSE IF ~IsNumber(obj["p"]) THEN [ret |-> PARMOBJ, errMessage |-> "p must be a numeric value"]
    ELSE [ret |-> 0, errMessage |-> errMessage]

(***************************************************************************)
(* MakeErrorObject(int, std::string&): the value returned and the caller's *)
(* string after the call (the prefix is assigned through the reference).   *)
(***************************************************************************)
Null == [null |-> TRUE]
UnknownInternalError ==
    "Unknown internal error - please report this error to make this module better. Details about error reporting can be found at the GitHub repo: https://github.com/barrysteyn/node-scrypt#report-errors"

MakeErrorObjectKeepsCode(errorCode, message) ==
    IF errorCode # 0
    THEN LET m == CASE errorCode = ADDONARG -> "Module addon argument error: " \o message
                    [] errorCode = JSARG -> "JavaScript wrapper argument error: " \o message
                    [] errorCode = PARMOBJ -> "Scrypt parameter object error: " \o message
                    [] errorCode = CONFIG -> "Scrypt config object error: " \o message
                    [] OTHER -> UnknownInternalError
         IN  [value |-> [err_code |-> errorCode, err_message |-> m], errorMessage |-> m]
    ELSE [value |-> Null, errorMessage |-> message]

MakeErrorObject(errorCode, message) ==
    IF errorCode # 0
    THEN LET known == errorCode \in {ADDONARG, JSARG, PARMOBJ, CONFIG}
             m == CASE errorCode = ADDONARG -> "Module addon argument error: " \o message
                    [] errorCode = JSARG -> "JavaScript wrapper argument error: " \o message
                    [] errorCode = PARMOBJ -> "Scrypt parameter object error: " \o message
                    [] errorCode = CONFIG -> "Scrypt config object error: " \o message
                    [] OTHER -> UnknownInternalError
             c == IF known THEN errorCode ELSE 500
         IN  [value |-> [err_code |-> c, err_message |-> m], errorMessage |-> m]
    ELSE [value |-> Null, errorMessage |-> message]

(***************************************************************************)
(* MakeErrorObject(int, int).  assert(errorCode == SCRYPT) aborts the      *)
(* process when it fails in a build that keeps assertions, and is no       *)
(* statement at all in a build with NDEBUG.                                *)
(***************************************************************************)
Aborted == [aborted |-> TRUE]

MakeScryptErrorObject(ndebug, errorCode, scryptErrorCode) ==
    IF ~ndebug /\ errorCode # SCRYPT THEN Aborted
    ELSE IF scryptErrorCode # 0
    THEN [err_code |-> errorCode,
          err_message |-> "Scrypt error",
          scrypt_err_code |-> scryptErrorCode,
          scrypt_err_message |-> ScryptErrorDescr(scryptErrorCode)]
    ELSE Null


(***************************************************************************)
(* Values a caller passes to ProduceBuffer.  A buffer has an identity, a   *)
(* length and the native region behind it (0: memory of the host).  The    *)
(* empty handle is what a failed construction leaves.  "Other" is a value  *)
(* that is neither a string nor a buffer and that ToObject() converts.     *)
(***************************************************************************)
Handle(kind, chars, id, length, region) ==
    [kind |-> kind, chars |-> chars, id |-> id, length |-> length, region |-> region]

EmptyHandle == Handle("Empty", 0, 0, 0, 0)
Arguments ==
    {Handle(k, n, 0, 0, 0) : k \in {"String", "StringObject"}, n \in 0..MaxChars}
    \cup {Handle("Buffer", 0, i, l, 0) : i \in 1..MaxHostBuffers, l \in 0..MaxBufLen}
    \cup {Handle("Other", 0, 0, 0, 0)}

Encodings == {"ASCII", "UCS2", "BUFFER"}
ArgNames == {"key", "salt"}

IsString(arg) == arg.kind \in {"String", "StringObject"}
HasInstance(arg) == arg.kind = "Buffer"

\* node::DecodeBytes: the number of bytes the string takes in the encoding.
DecodeBytes(arg, encoding) ==
    IF encoding = "UCS2" THEN arg.chars * 2 ELSE arg.chars

(***************************************************************************)
(* The native heap: one record per region obtained with new char[].        *)
(*   wrapped   - node::Buffer::New(data, length, FreeCallback, NULL) has   *)
(*               made a host buffer the owner of the region                *)
(*   discarded - the host has reclaimed that buffer                        *)
(*   released  - the number of times delete [] ran on the region           *)
(***************************************************************************)
NewRegion == [wrapped |-> FALSE, discarded |-> FALSE, released |-> 0]

FreeCallback(hp, i) == [hp EXCEPT ![i].released = @ + 1]

\* CreateBuffer(buffer, data, dataLength): the slow buffer takes the region,
\* then the Buffer constructor is run; NewInstance leaves an empty handle
\* when the constructor throws.
CreateBuffer(hp, i, dataLength, constructed) ==
    [heap |-> [hp EXCEPT ![i].wrapped = TRUE],
     buffer |-> IF constructed
                THEN Handle("Buffer", 0, MaxHostBuffers + i, dataLength, i)
                ELSE EmptyHandle]

(***************************************************************************)
(* ProduceBuffer.  ext holds what the calls into node and v8 give back:    *)
(*   written     - the result of node::DecodeWrite                         *)
(*   constructed - did the Buffer constructor return an object             *)
(*   length      - what node::Buffer::Length reads through an empty handle *)
(*   crash       - does reading through an empty handle end the process    *)
(***************************************************************************)
Outcome(r, arg, message, hp) ==
    [ret |-> r, aborted |-> FALSE, argument |-> arg, errorMessage |-> message, heap |-> hp]
Abort(arg, message, hp) ==
    [ret |-> 0, aborted |-> TRUE, argument |-> arg, errorMessage |-> message, heap |-> hp]

CheckEmpty(arg, argName, message, checkEmpty, hp, ext) ==
    IF ~checkEmpty THEN Outcome(0, arg, message, hp)
    ELSE IF arg.kind = "Empty" /\ ext.crash THEN Abort(arg, message, hp)
    ELSE IF (IF arg.kind = "Empty" THEN ext.length ELSE arg.length) = 0
         THEN Outcome(1, arg, argName \o " cannot be empty", hp)
         ELSE Outcome(0, arg, message, hp)

ProduceBufferCopies(ndebug, arg, argName, message, encoding, checkEmpty, hp, ext) ==
    IF encoding = "BUFFER" /\ HasInstance(arg) THEN Outcome(0, arg, message, hp)
    ELSE IF ~IsString(arg) /\ ~HasInstance(arg)
         THEN Outcome(1, arg, argName \o " must be a buffer or string", hp)
    ELSE IF encoding = "BUFFER" /\ ~HasInstance(arg)
         THEN Outcome(1, arg, argName \o " must be a buffer as specified by config", hp)
    ELSE LET dataLength == IF IsString(arg) THEN DecodeBytes(arg, encoding) ELSE arg.length
             i == Len(hp) + 1
             made == CreateBuffer(Append(hp, NewRegion), i, dataLength, ext.constructed)
             dataWritten == IF IsString(arg) /\ ext.written < dataLength
                            THEN ext.written ELSE dataLength
         IN  IF dataWritten # dataLength
             THEN IF ~ndebug THEN Abort(arg, message, made.heap)
                  ELSE Outcome(1, arg,
                               argName \o " is probably encoded differently to what was specified",
                               made.heap)
             ELSE CheckEmpty(made.buffer, argName, message, checkEmpty, made.heap, ext)

ProduceBufferFreesOnError(ndebug, arg, argName, message, encoding, checkEmpty, hp, ext) ==
    IF encoding = "BUFFER" /\ HasInstance(arg) THEN Outcome(0, arg, message, hp)
    ELSE IF ~IsString(arg) /\ ~HasInstance(arg)
         THEN Outcome(1, arg, argName \o " must be a buffer or string", hp)
    ELSE IF encoding = "BUFFER" /\ ~HasInstance(arg)
         THEN Outcome(1, arg, argName \o " must be a buffer as specified by config", hp)
    ELSE IF IsString(arg)
         THEN LET dataLength == DecodeBytes(arg, encoding)
                  i == Len(hp) + 1
                  made == CreateBuffer(Append(hp, NewRegion), i, dataLength, ext.constructed)
                  dataWritten == IF ext.written < dataLength THEN ext.written ELSE dataLength
                  res == CheckEmpty(made.buffer, argName, message, checkEmpty, made.heap, ext)
              IN  IF dataWritten # dataLength
                  THEN IF ~ndebug THEN Abort(arg, message, made.heap)
                       ELSE Outcome(1, arg,
                                    argName \o " is probably encoded differently to what was specified",
                                    FreeCallback(made.heap, i))
                  ELSE IF res.ret = 1 /\ ~res.aborted
                       THEN [res EXCEPT !.heap = FreeCallback(made.heap, i)]
                       ELSE res
    ELSE CheckEmpty(arg, argName, message, checkEmpty, hp, ext)

ProduceBuffer(ndebug, arg, argName, message, encoding, checkEmpty, hp, ext) ==
    IF encoding = "BUFFER" /\ HasInstance(arg) THEN Outcome(0, arg, message, hp)
    ELSE IF ~IsString(arg) /\ ~HasInstance(arg)
         THEN Outcome(1, arg, argName \o " must be a buffer or string", hp)
    ELSE IF encoding = "BUFFER" /\ ~HasInstance(arg)
         THEN Outcome(1, arg, argName \o " must be a buffer as specified by config", hp)
    ELSE IF IsString(arg)
         THEN LET dataLength == DecodeBytes(arg, encoding)
                  i == Len(hp) + 1
                  made == CreateBuffer(Append(hp, NewRegion), i, dataLength, ext.constructed)
                  dataWritten == IF ext.written < dataLength THEN ext.written ELSE dataLength
              IN  IF dataWritten # dataLength
                  THEN IF ~ndebug THEN Abort(arg, message, made.heap)
                       ELSE Outcome(1, arg,
                                    argName \o " is probably encoded differently to what was specified",
                                    made.heap)
                  ELSE CheckEmpty(made.buffer, argName, message, checkEmpty, made.heap, ext)
    ELSE CheckEmpty(arg, argName, message, checkEmpty, hp, ext)

(***************************************************************************)
(* The state machine.  A call is one step: the whole function runs, its    *)
(* result is in ret and in the variables it was handed by reference.       *)
(***************************************************************************)
NoObject == [f \in Fields |-> [has |-> FALSE, type |-> "none", num |-> 0]]
NoCall ==
    [op |-> "none", obj |-> NoObject, errorCode |-> 0, scryptErrorCode |-> 0,
     message |-> "", argument |-> EmptyHandle, argName |-> "", encoding |-> "",
     checkEmpty |-> FALSE, regions |-> 0]
Returned(int, value) == [int |-> int, value |-> value, aborted |-> FALSE]

Init ==
    /\ NDEBUG \in BOOLEAN
    /\ call = NoCall
    /\ ret = Returned(0, Null)
    /\ errorMessage = ""
    /\ argument = EmptyHandle
    /\ heap = <<>>

CallCheckScryptParameters ==
    /\ ~ret.aborted
    /\ \E obj \in ParameterObjects :
         LET res == CheckScryptParameters(obj, errorMessage)
         IN  /\ call' = [NoCall EXCEPT !.op = "CheckScryptParameters", !.obj = obj,
                                       !.message = errorMessage]
             /\ ret' = Returned(res.ret, Null)
             /\ errorMessage' = res.errMessage
    /\ UNCHANGED <<NDEBUG, argument, heap>>

CallMakeErrorObject ==
    /\ ~ret.aborted
    /\ Len(errorMessage) <= MaxMessageLen
    /\ \E errorCode \in Categories :
         LET res == MakeErrorObject(errorCode, errorMessage)
         IN  /\ call' = [NoCall EXCEPT !.op = "MakeErrorObject", !.errorCode = errorCode,
                                       !.message = errorMessage]
             /\ ret' = Returned(0, res.value)
             /\ errorMessage' = res.errorMessage
    /\ UNCHANGED <<NDEBUG, argument, heap>>

CallMakeScryptErrorObject ==
    /\ ~ret.aborted
    /\ \E errorCode \in Categories, scryptErrorCode \in NativeCodes :
         LET value == MakeScryptErrorObject(NDEBUG, errorCode, scryptErrorCode)
         IN  /\ call' = [NoCall EXCEPT !.op = "MakeScryptErrorObject",
                                       !.errorCode = errorCode,
                                       !.scryptErrorCode = scryptErrorCode,
                                       !.message = errorMessage]
             /\ ret' = IF value = Aborted
                       THEN [int |-> 0, value |-> Null, aborted |-> TRUE]
                       ELSE Returned(0, value)
    /\ UNCHANGED <<NDEBUG, errorMessage, argument, heap>>

Allocates(arg, encoding) == IsString(arg) /\ encoding # "BUFFER"

\* The caller hands over a std::string it has just constructed.
CallProduceBuffer ==
    /\ ~ret.aborted
    /\ \E arg \in Arguments, argName \in ArgNames, encoding \in Encodings,
          checkEmpty \in BOOLEAN :
         /\ Allocates(arg, encoding) => Len(heap) < MaxRegions
         /\ \E written \in 0..(IF Allocates(arg, encoding) THEN DecodeBytes(arg, encoding) ELSE 0),
               constructed \in (IF Allocates(arg, encoding) THEN BOOLEAN ELSE {TRUE}) :
              \E crash \in (IF ~constructed /\ checkEmpty THEN BOOLEAN ELSE {FALSE}),
                 length \in (IF ~constructed /\ checkEmpty THEN 0..1 ELSE {0}) :
                LET ext == [written |-> written, constructed |-> constructed,
                            length |-> length, crash |-> crash]
                    res == ProduceBuffer(NDEBUG, arg, argName, "", encoding,
                                         checkEmpty, heap, ext)
                IN  /\ call' = [NoCall EXCEPT !.op = "ProduceBuffer", !.argument = arg,
                                              !.argName = argName, !.encoding = encoding,
                                              !.checkEmpty = checkEmpty,
                                              !.regions = Len(heap)]
                    /\ ret' = [int |-> res.ret, value |-> Null, aborted |-> res.aborted]
                    /\ argument' = res.argument
                    /\ errorMessage' = res.errorMessage
                    /\ heap' = res.heap
    /\ UNCHANGED NDEBUG

\* The host reclaims a buffer that no handle reaches any more and runs the
\* callback registered with it.
HostCollect ==
    /\ ~ret.aborted
    /\ \E i \in DOMAIN heap :
         /\ heap[i].wrapped
         /\ ~heap[i].discarded
         /\ argument.region # i
         /\ heap' = FreeCallback([heap EXCEPT ![i].discarded = TRUE], i)
    /\ UNCHANGED <<NDEBUG, call, ret, errorMessage, argument>>

Next == CallCheckScryptParameters \/ CallMakeErrorObject \/ CallMakeScryptErrorObject

Spec == Init /\ [][Next]_vars

NextBuffer == CallProduceBuffer \/ HostCollect

SpecBuffer == Init /\ [][NextBuffer]_vars

(***************************************************************************)
(* Properties of CheckScryptParameters (specification Spec).               *)
(***************************************************************************)

\* C1: the six checks run in the order N present, r present, p present,
\* N numeric, r numeric, p numeric; the call returns PARMOBJ with the message
\* of the first check that fails, and returns 0 with the caller's message
\* untouched exactly when all six pass, whatever the numbers are.
C1_SixChecksInOrder ==
    call.op = "CheckScryptParameters" =>
        LET obj == call.obj
            checks == <<[ok |-> obj["N"].has, msg |-> "N value is not present"],
                        [ok |-> obj["r"].has, msg |-> "r value is not present"],
                        [ok |-> obj["p"].has, msg |-> "p value is not present"],
                        [ok |-> obj["N"].type = "number", msg |-> "N must be a numeric value"],
                        [ok |-> obj["r"].type = "number", msg |-> "r must be a numeric value"],
                        [ok |-> obj["p"].type = "number", msg |-> "p must be a numeric value"]>>
            failing == {i \in 1..6 : ~checks[i].ok}
        IN  /\ (ret.int = 0) <=> (failing = {})
            /\ failing = {} => errorMessage = call.message
            /\ failing # {} =>
                 /\ ret.int = PARMOBJ
                 /\ \E i \in failing :
                      /\ \A j \in failing : i <= j
                      /\ errorMessage = checks[i].msg

C1_Witness ==
    /\ call.op = "CheckScryptParameters"
    /\ call.obj["N"].has /\ call.obj["N"].type # "number"
    /\ ~call.obj["p"].has /\ call.obj["r"].has
    /\ ret.int = PARMOBJ
    /\ errorMessage = "p value is not present"

\* C2 as stated: when a field is missing or not numeric, the error names the
\* first such field in the order N, r, p.
C2_FirstBadFieldInOrderNrp ==
    call.op = "CheckScryptParameters" =>
        LET bad(f) == ~call.obj[f].has \/ call.obj[f].type # "number"
            named(f) == errorMessage \in {f \o " value is not present",
                                          f \o " must be a numeric value"}
        IN  /\ bad("N") => ret.int = PARMOBJ /\ named("N")
            /\ ~bad("N") /\ bad("r") => ret.int = PARMOBJ /\ named("r")
            /\ ~bad("N") /\ ~bad("r") /\ bad("p") => ret.int = PARMOBJ /\ named("p")

\* C2 amended: when a field is missing or not numeric, the error names one
\* field only: the first missing field in the order N, r, p when a field is
\* missing, and otherwise the first non-numeric field in the order N, r, p.
C2_FirstMissingThenFirstNonNumeric ==
    call.op = "CheckScryptParameters" =>
        LET order == <<"N", "r", "p">>
            missing == {i \in 1..3 : ~call.obj[order[i]].has}
            nonNumeric == {i \in 1..3 : call.obj[order[i]].type # "number"}
            candidates == IF missing # {} THEN missing ELSE nonNumeric
            named(f) == errorMessage \in {f \o " value is not present",
                                          f \o " must be a numeric value"}
        IN  candidates # {} =>
              /\ ret.int = PARMOBJ
              /\ \E i \in candidates :
                   /\ \A j \in candidates : i <= j
                   /\ \A k \in 1..3 : named(order[k]) <=> k = i

C2_Witness ==
    /\ call.op = "CheckScryptParameters"
    /\ call.obj["N"].has /\ call.obj["N"].type = "string"
    /\ ~call.obj["r"].has
    /\ ret.int = PARMOBJ
    /\ errorMessage = "r value is not present"

(***************************************************************************)
(* Properties of the two MakeErrorObject overloads (specification Spec).   *)
(***************************************************************************)

\* C3: MakeErrorObject(SCRYPT, code) is the null value for code 0, and for a
\* code in 1..13 an object with err_code SCRYPT, err_message "Scrypt error",
\* scrypt_err_code the code and scrypt_err_message the table's text for it.
C3_NativeTable ==
    (call.op = "MakeScryptErrorObject" /\ call.errorCode = SCRYPT) =>
        LET code == call.scryptErrorCode
            table == <<"getrlimit or sysctl(hw.usermem) failed",
                       "clock_getres or clock_gettime failed",
                       "error computing derived key",
                       "could not read salt from /dev/urandom",
                       "error in OpenSSL",
                       "malloc failed",
                       "data is not a valid scrypt-encrypted block",
                       "unrecognized scrypt format",
                       "decrypting file would take too much memory",
                       "decrypting file would take too long",
                       "password is incorrect",
                       "error writing output file",
                       "error reading input file">>
        IN  /\ ~ret.aborted
            /\ code = 0 => ret.value = Null
            /\ code \in 1..13 =>
                 ret.value = [err_code |-> SCRYPT,
                              err_message |-> "Scrypt error",
                              scrypt_err_code |-> code,
                              scrypt_err_message |-> table[code]]

C3_Witness ==
    /\ call.op = "MakeScryptErrorObject"
    /\ call.errorCode = SCRYPT
    /\ call.scryptErrorCode = 13
    /\ ret.value # Null
    /\ ret.value.scrypt_err_message = "error reading input file"

\* C4: for a native code outside 0..13, MakeErrorObject(SCRYPT, code) is an
\* object whose scrypt_err_message is "error unknown" and whose
\* scrypt_err_code is the code.
C4_UnknownCode ==
    (/\ call.op = "MakeScryptErrorObject"
     /\ call.errorCode = SCRYPT
     /\ call.scryptErrorCode \notin 0..13) =>
        /\ ret.value # Null
        /\ ret.value.scrypt_err_code = call.scryptErrorCode
        /\ ret.value.scrypt_err_message = "error unknown"

\* C5: MakeErrorObject(category, message) is defined for every category:
\* the null value for 0; err_code the category and err_message the
\* category's label followed by the message for ADDONARG, JSARG, PARMOBJ and
\* CONFIG; err_code 500 and the fixed text, without the message, for every
\* category other than these four and SCRYPT.
C5_GeneralFormTotal ==
    call.op = "MakeErrorObject" =>
        LET c == call.errorCode
            label == CASE c = ADDONARG -> "Module addon argument error: "
                       [] c = JSARG -> "JavaScript wrapper argument error: "
                       [] c = PARMOBJ -> "Scrypt parameter object error: "
                       [] c = CONFIG -> "Scrypt config object error: "
                       [] OTHER -> ""
        IN  /\ ~ret.aborted
            /\ c = 0 => ret.value = Null
            /\ c \in {ADDONARG, JSARG, PARMOBJ, CONFIG} =>
                 ret.value = [err_code |-> c, err_message |-> label \o call.message]
            /\ c \notin {0, ADDONARG, JSARG, PARMOBJ, CONFIG, SCRYPT} =>
                 ret.value = [err_code |-> 500, err_message |-> UnknownInternalError]

C5_Witness ==
    /\ call.op = "MakeErrorObject"
    /\ call.errorCode \notin {0, ADDONARG, JSARG, PARMOBJ, CONFIG, SCRYPT}
    /\ call.message # ""
    /\ ret.value # Null
    /\ ret.value.err_code = 500

C10_MessageUnchanged ==
    call.op = "MakeErrorObject" => errorMessage = call.message

(***************************************************************************)
(* Properties of ProduceBuffer (specification SpecBuffer).                 *)
(***************************************************************************)

\* C6: with checkEmpty set, a call that resolves the argument to a buffer of
\* length zero returns 1 with the message "<argName> cannot be empty".
C6_EmptyAlwaysRejected ==
    (/\ call.op = "ProduceBuffer"
     /\ call.checkEmpty
     /\ ~ret.aborted
     /\ argument.kind = "Buffer"
     /\ argument.length = 0) =>
        /\ ret.int = 1
        /\ errorMessage = call.argName \o " cannot be empty"

\* C7: for an argument that is a buffer and an encoding other than BUFFER,
\* the handle after the call is the buffer that was passed, no region has
\* been allocated, and the call returns 1 exactly when checkEmpty is set and
\* the buffer is empty.
C7_BufferIdentityKept ==
    (/\ call.op = "ProduceBuffer"
     /\ call.argument.kind = "Buffer"
     /\ call.encoding # "BUFFER") =>
        /\ ~ret.aborted
        /\ argument = call.argument
        /\ Len(heap) = call.regions
        /\ (ret.int = 1) <=> (call.checkEmpty /\ call.argument.length = 0)
        /\ ret.int \in {0, 1}

C7_Witness ==
    /\ call.op = "ProduceBuffer"
    /\ call.argument.kind = "Buffer"
    /\ call.argument.length > 0
    /\ call.encoding = "ASCII"
    /\ call.checkEmpty
    /\ ret.int = 0
    /\ argument = call.argument

\* C8: a region allocated by ProduceBuffer is owned by a host buffer when
\* ProduceBuffer returns, on every return path; it is released at most once,
\* only when the host has discarded that buffer, and not while the caller's
\* handle reaches it.
C8_RegionReleasedOnceByHost ==
    \A i \in DOMAIN heap :
        /\ heap[i].released <= 1
        /\ heap[i].released = 1 <=> heap[i].discarded
        /\ ~ret.aborted => heap[i].wrapped
        /\ argument.region = i => heap[i].released = 0

C8_Witness ==
    /\ call.op = "ProduceBuffer"
    /\ ret.int = 1
    /\ Len(heap) = call.regions + 1
    /\ heap[Len(heap)].released = 1
    /\ heap[Len(heap)].discarded
====
